---- MODULE Spec2Model ----
(***************************************************************************)
(* A model of tools/fix_nif_winding.py: the NIF header and table parser,   *)
(* the heuristic INDEX-stream locator, the triangle-winding patcher and    *)
(* the command-line driver.  Buffers are sequences of bytes (0..255);      *)
(* positions are 0-based as in the Python source, so byte p of buffer d is *)
(* d[p + 1].  Python integers are unbounded; every buffer of the model     *)
(* keeps its bytes below 128 wherever four of them are read as an unsigned *)
(* value, so every decoded value fits the checker's integers.              *)
(***************************************************************************)
EXTENDS Integers, Sequences, FiniteSets, TLC

(***************************************************************************)
(* Bounds of the input space.                                              *)
(***************************************************************************)
\* regions declared by a generated data stream
MaxRegions == 2
\* largest baseElementIndex of a generated region
MaxBase == 1
\* files in a generated directory
MaxFiles == 2

(***************************************************************************)
(* Bytes: struct.pack / struct.unpack_from, little-endian.                 *)
(***************************************************************************)
nif_version(major, minor, patch, internal) ==
    major * 16777216 + minor * 65536 + patch * 256 + internal

CanRead(d, p, n) == p >= 0 /\ p + n <= Len(d)

U16At(d, p) == d[p + 1] + 256 * d[p + 2]

U32At(d, p) == d[p + 1] + 256 * d[p + 2] + 65536 * d[p + 3] + 16777216 * d[p + 4]

\* '<i': the top byte carries the sign
I32At(d, p) ==
    d[p + 1] + 256 * d[p + 2] + 65536 * d[p + 3]
      + 16777216 * (IF d[p + 4] >= 128 THEN d[p + 4] - 256 ELSE d[p + 4])

LE16(n) == << n % 256, (n \div 256) % 256 >>

LE32(n) == << n % 256, (n \div 256) % 256, (n \div 65536) % 256, (n \div 16777216) % 256 >>

\* d[a:b] of Python: clipped to the buffer
Slice(d, a, b) ==
    LET lo == IF a < Len(d) THEN a ELSE Len(d)
        hi == IF b < Len(d) THEN b ELSE Len(d)
    IN  IF hi <= lo THEN << >> ELSE SubSeq(d, lo + 1, hi)

RECURSIVE RStripZero(_)
RStripZero(s) ==
    IF s # << >> /\ s[Len(s)] = 0 THEN RStripZero(SubSeq(s, 1, Len(s) - 1)) ELSE s

StartsWith(s, prefix) ==
    Len(s) >= Len(prefix) /\ SubSeq(s, 1, Len(prefix)) = prefix

Contains(s, sub) ==
    \E i \in 0..(Len(s) - Len(sub)) : SubSeq(s, i + 1, i + Len(sub)) = sub

SetMin(S) == CHOOSE x \in S : \A y \in S : x <= y

\* bytes.find(sub, start, end): the lowest match inside [start, min(end, len)), or -1
Find(d, sub, start, end) ==
    LET hi == IF end < Len(d) THEN end ELSE Len(d)
        S == { i \in start..(hi - Len(sub)) : SubSeq(d, i + 1, i + Len(sub)) = sub }
    IN  IF S = {} THEN -1 ELSE SetMin(S)

\* struct.pack_into: bytes written at position off
ReplaceAt(d, off, bytes) ==
    [ i \in 1..Len(d) |-> IF i > off /\ i <= off + Len(bytes) THEN bytes[i - off] ELSE d[i] ]

RECURSIVE Flatten(_)
Flatten(ss) == IF ss = << >> THEN << >> ELSE Head(ss) \o Flatten(Tail(ss))

Fill(n, b) == [ i \in 1..n |-> b ]

(***************************************************************************)
(* The literals of the source, as ASCII bytes.                             *)
(***************************************************************************)
\* 'Gamebryo File Format'
GamebryoFileFormat ==
    << 71, 97, 109, 101, 98, 114, 121, 111, 32, 70, 105, 108, 101, 32,
       70, 111, 114, 109, 97, 116 >>
\* "NiMesh"
NiMesh == << 78, 105, 77, 101, 115, 104 >>
\* "NiDataStream"
NiDataStream == << 78, 105, 68, 97, 116, 97, 83, 116, 114, 101, 97, 109 >>
\* "INDEX"
INDEX == << 73, 78, 68, 69, 88 >>

V20_9_0_1 == nif_version(20, 9, 0, 1)
V20_2_0_7 == nif_version(20, 2, 0, 7)
V20_2_0_5 == nif_version(20, 2, 0, 5)
V20_1_0_1 == nif_version(20, 1, 0, 1)
V20_0_0_3 == nif_version(20, 0, 0, 3)
V10_0_1_8 == nif_version(10, 0, 1, 8)
V5_0_0_6 == nif_version(5, 0, 0, 6)
V5_0_0_1 == nif_version(5, 0, 0, 1)
UserVer12 == nif_version(0, 0, 0, 12)

(***************************************************************************)
(* The file layout the parser reads, written out: the inputs of the model  *)
(* are files encoded field by field in the order parse_and_fix reads them. *)
(***************************************************************************)
\* the type table of the generated files: NiMesh, a NiDataStream with its
\* usage/access suffix, NiNode
TypeTable ==
    << NiMesh, NiDataStream \o << 1, 48, 1, 51 >>, << 78, 105, 78, 111, 100, 101 >> >>

TMesh == 0
TStream == 1
TNode == 2

\* a byte that starts no field the locator accepts
PadByte == 127

EncStrings(names) ==
    Flatten([ i \in 1..Len(names) |-> LE32(Len(names[i])) \o names[i] ])

\* header line, packed version, version-gated fields and tables, then the objects
EncFile(f) ==
    f.line
      \o LE32(f.ver)
      \o (IF f.ver >= V20_0_0_3 THEN << 1 >> ELSE << >>)
      \o (IF f.ver >= V10_0_1_8 THEN LE32(f.user) ELSE << >>)
      \o LE32(f.nobj)
      \o (IF f.user = UserVer12 /\ f.ver = V20_2_0_7 THEN LE32(0) ELSE << >>)
      \o (IF f.ver >= V20_9_0_1 THEN LE32(2) \o << 0, 0 >> ELSE << >>)
      \o (IF f.ver >= V5_0_0_1
            THEN LE16(Len(TypeTable)) \o EncStrings(TypeTable)
                   \o Flatten([ i \in 1..Len(f.objs) |-> LE16(f.objs[i].t) ])
            ELSE << >>)
      \o (IF f.ver >= V20_2_0_5
            THEN Flatten([ i \in 1..Len(f.objs) |-> LE32(Len(f.objs[i].body)) ])
            ELSE << >>)
      \o (IF f.ver >= V20_1_0_1
            THEN LE32(Len(f.strs)) \o LE32(8) \o EncStrings(f.strs)
            ELSE << >>)
      \o (IF f.ver >= V5_0_0_6 THEN LE32(1) \o LE32(0) ELSE << >>)
      \o Flatten([ i \in 1..Len(f.objs) |-> f.objs[i].body ])

\* one stream reference of a mesh: streamLinkID, `gap' bytes, numElementDescs,
\* the element descriptors (stringIndex, elementIndex)
StreamRef(link, gap, descs) ==
    LE32(link) \o gap \o LE32(Len(descs))
      \o Flatten([ i \in 1..Len(descs) |-> LE32(descs[i][1]) \o LE32(descs[i][2]) ])

\* instanced (byte) and an empty submeshRegionMap (ushort count)
StdGap == << 0 >> \o LE16(0)

\* (count << 16) | (size << 8) | dataType
Packed(e) == e[1] * 65536 + e[2] * 256 + e[3]

\* streamSize, streamClone, regions, elements, streamData, streamable
StreamBody(regs, elems, payloadLen) ==
    LE32(payloadLen) \o LE32(0) \o LE32(Len(regs))
      \o Flatten([ i \in 1..Len(regs) |-> LE32(regs[i][1]) \o LE32(regs[i][2]) ])
      \o LE32(Len(elems))
      \o Flatten([ i \in 1..Len(elems) |-> LE32(Packed(elems[i])) ])
      \o [ i \in 1..payloadLen |-> i ]
      \o << 1 >>

Obj(t, body) == [ t |-> t, body |-> body ]

StdLine == GamebryoFileFormat \o << 10 >>

File(ver, objs, strs) ==
    [ line |-> StdLine, ver |-> ver, user |-> 0, nobj |-> Len(objs),
      objs |-> objs, strs |-> strs ]

V20_6 == nif_version(20, 6, 0, 0)

StdMesh(link) == Obj(TMesh, StreamRef(link, StdGap, << <<0, 0>> >>) \o Fill(21, PadByte))

UShortElems == << <<1, 2, 5>> >>

StdStream == Obj(TStream, StreamBody(<< <<0, 3>> >>, UShortElems, 12))

NodeObj(n) == Obj(TNode, Fill(n, PadByte))

(***************************************************************************)
(* Family 1: one mesh and one stream whose region list ranges over every   *)
(* list of at most MaxRegions regions, under nine element-format, payload  *)
(* and trailing-object combinations.                                       *)
(***************************************************************************)
Counts == { 3, 4 }

Regions == { << b, c >> : b \in 0..MaxBase, c \in Counts }

RegionLists == UNION { [ 1..n -> Regions ] : n \in 0..MaxRegions }

\* elements, payload length, whether a NiNode follows the stream
StreamShapes ==
    { [ elems |-> UShortElems, len |-> 12, tail |-> FALSE ],
      [ elems |-> UShortElems, len |-> 6, tail |-> TRUE ],
      [ elems |-> UShortElems, len |-> 6, tail |-> FALSE ],
      [ elems |-> << <<1, 4, 11>> >>, len |-> 12, tail |-> TRUE ],
      [ elems |-> << <<1, 4, 5>> >>, len |-> 12, tail |-> FALSE ],
      [ elems |-> << <<1, 2, 10>> >>, len |-> 12, tail |-> FALSE ],
      [ elems |-> << <<1, 1, 5>> >>, len |-> 12, tail |-> FALSE ],
      [ elems |-> << >>, len |-> 12, tail |-> FALSE ],
      [ elems |-> << <<1, 2, 5>>, <<2, 2, 7>> >>, len |-> 12, tail |-> FALSE ] }

PatcherFiles ==
    { EncFile(File(V20_6,
                   << StdMesh(1), Obj(TStream, StreamBody(regs, sh.elems, sh.len)) >>
                     \o (IF sh.tail THEN << NodeObj(8) >> ELSE << >>),
                   << INDEX >>))
        : regs \in RegionLists, sh \in StreamShapes }

(***************************************************************************)
(* Family 2: mesh layouts for the locator and the orchestrator.            *)
(***************************************************************************)
\* a descriptor list of three whose last record runs past the mesh end
CrossingMesh ==
    Obj(TMesh, SubSeq(StreamRef(2, Fill(3, PadByte),
                                << <<0, 0>>, <<0, 1>>, <<0, 0>> >>), 1, 33))

\* the link id `dist' bytes before the count field
FarLinkMesh(dist) ==
    Obj(TMesh, StreamRef(1, Fill(dist - 4, PadByte), << <<0, 0>> >>) \o Fill(21, PadByte))

\* a second INDEX descriptor `back' bytes after the count field
FarCountMesh(back) ==
    Obj(TMesh, StreamRef(1, StdGap, << <<0, 0>> >>) \o Fill(back - 12, PadByte)
                 \o LE32(0) \o LE32(2) \o Fill(21, PadByte))

LocatorFiles ==
    { EncFile(File(V20_6, objs, << INDEX >>)) : objs \in
        { << StdMesh(2), StdMesh(2), StdStream >>,
          << Obj(TMesh, StreamRef(1, StdGap, << <<0, 0>>, <<0, 1>> >>) \o Fill(21, PadByte)),
             StdStream >>,
          << Obj(TMesh, StreamRef(1, StdGap, << <<0, 0>> >>)
                          \o StreamRef(2, StdGap, << <<0, 1>> >>) \o Fill(21, PadByte)),
             StdStream,
             Obj(TStream, StreamBody(<< <<0, 6>> >>, UShortElems, 12)) >>,
          << CrossingMesh, Obj(TNode, Fill(8, 0)), StdStream >>,
          << FarLinkMesh(49), StdStream >>,
          << FarLinkMesh(50), StdStream >>,
          << FarCountMesh(96), StdStream >>,
          << FarCountMesh(100), StdStream >>,
          << NodeObj(0), StdMesh(2), StdStream >>,
          << StdStream, StdMesh(0), NodeObj(4) >>,
          << Obj(TStream, StreamBody(<< <<9, 3>> >>, UShortElems, 12)), StdMesh(0),
             NodeObj(4), NodeObj(4) >> } }

(***************************************************************************)
(* Family 3: files the parser rejects or cannot finish, and the remaining  *)
(* version gates.                                                          *)
(***************************************************************************)
StdObjs == << StdMesh(1), StdStream >>

StdFile == EncFile(File(V20_6, StdObjs, << INDEX >>))

NoIndexFile == EncFile(File(V20_6, StdObjs, << << 80, 79, 83 >>, << >> >>))

BadHeaderFile ==
    EncFile([ File(V20_6, StdObjs, << INDEX >>) EXCEPT !.line = << 78, 73, 70, 10 >> ])

NoNewlineFile == GamebryoFileFormat

ZeroObjectsFile == EncFile([ File(V20_6, StdObjs, << INDEX >>) EXCEPT !.nobj = 0 ])

NegativeObjectsFile ==
    EncFile([ File(V20_6, << >>, << INDEX >>) EXCEPT !.nobj = -1 ])

\* below 20.2.0.5: no per-object size table
OldVersionFile == EncFile(File(nif_version(20, 1, 0, 3), StdObjs, << INDEX >>))

\* below 5.0.0.1: no tables at all
AncientFile == EncFile(File(nif_version(4, 0, 0, 2), StdObjs, << INDEX >>))

LegacyUserFile ==
    EncFile([ File(V20_2_0_7, StdObjs, << INDEX >>) EXCEPT !.user = UserVer12 ])

MetadataFile == EncFile(File(V20_9_0_1, StdObjs, << INDEX >>))

Cuts == { 23, 27, 31, 40, 66, 74, 90, 100 }

TruncatedFiles == { SubSeq(StdFile, 1, n) : n \in Cuts }

ParserFiles ==
    { StdFile, NoIndexFile, BadHeaderFile, NoNewlineFile, ZeroObjectsFile,
      NegativeObjectsFile, OldVersionFile, AncientFile, LegacyUserFile, MetadataFile }
      \cup TruncatedFiles

Inputs == PatcherFiles \cup LocatorFiles \cup ParserFiles

(***************************************************************************)
(* State.  NifParser's fields keep their names; pc is the position inside  *)
(* parse_and_fix, mpc the position inside main.                            *)
(***************************************************************************)
VARIABLES
    data,               \* self.data, the mutable buffer
    pos,                \* self.pos
    file_ver, user_ver, num_objects,
    type_names, object_types, object_sizes, object_offsets, string_table,
    modified,           \* self.modified
    index_str_idx,      \* process_all_meshes: index of "INDEX"
    processed_streams,  \* process_all_meshes: the processed set
    mesh_i,             \* process_all_meshes: the loop variable i
    streams,            \* the locator's result still to be dispatched
    pc,                 \* where parse_and_fix stands
    ret,                \* what parse_and_fix returned
    errAt,              \* the function an exception was raised in
    dataIn,             \* the buffer this run of parse_and_fix was given
    data0,              \* the buffer the first run was given
    pass,               \* 1: first run, 2: the run on the first run's output
    scan,               \* the last mesh scan: range and hits examined
    located,            \* stream ids dispatched so far, in order
    patchLog,           \* one record per Patcher invocation
    writeLog,           \* one record per triple written by pack_into
    writes1,            \* writeLog of the first run
    disk,               \* main: the files of the directory
    disk0,              \* main: the files before the run
    fi,                 \* main: index of the file being processed
    outcomes,           \* main: fix_nif_file's result per processed file
    mpc                 \* where main stands

parserVars ==
    << data, pos, file_ver, user_ver, num_objects, type_names, object_types,
       object_sizes, object_offsets, string_table, modified, index_str_idx,
       processed_streams, mesh_i, streams, pc, ret, errAt, dataIn, scan,
       located, patchLog, writeLog >>

passVars == << data0, pass, writes1 >>

mainVars == << disk, disk0, fi, outcomes, mpc >>

vars == << parserVars, passVars, mainVars >>

NoScan == [ start |-> 0, end |-> 0, hits |-> << >> ]

\* NifParser.__init__ on buffer d
NewParser(d) ==
    /\ data = d
    /\ dataIn = d
    /\ pos = 0
    /\ file_ver = 0
    /\ user_ver = 0
    /\ num_objects = 0
    /\ type_names = << >>
    /\ object_types = << >>
    /\ object_sizes = << >>
    /\ object_offsets = << >>
    /\ string_table = << >>
    /\ modified = FALSE
    /\ index_str_idx = -1
    /\ processed_streams = {}
    /\ mesh_i = 0
    /\ streams = << >>
    /\ ret = FALSE
    /\ errAt = "none"
    /\ scan = NoScan
    /\ located = << >>
    /\ patchLog = << >>
    /\ writeLog = << >>

Init ==
    /\ \E d \in Inputs : NewParser(d) /\ data0 = d
    /\ pc = "header"
    /\ pass = 1
    /\ writes1 = << >>
    /\ disk = << >>
    /\ disk0 = << >>
    /\ fi = 0
    /\ outcomes = << >>
    /\ mpc = "none"

\* an exception leaves parse_and_fix
Raise(where) ==
    /\ pc' = "raised"
    /\ errAt' = where

\* parse_and_fix returns v
Return(v) ==
    /\ pc' = "returned"
    /\ ret' = v

(***************************************************************************)
(* parse_header                                                            *)
(***************************************************************************)
\* the reads of parse_header after the header line, in order; st is "ok",
\* "false" (return False) or "raise"
HeaderFields(d, p0) ==
    IF ~CanRead(d, p0, 4) THEN [ st |-> "raise" ]
    ELSE
    LET ver == U32At(d, p0)
        p1 == p0 + 4
        hasEndian == ver >= V20_0_0_3
        p2 == IF hasEndian THEN p1 + 1 ELSE p1
        hasUser == ver >= V10_0_1_8
        p3 == IF hasUser THEN p2 + 4 ELSE p2
        p4 == p3 + 4
    IN  IF hasEndian /\ ~CanRead(d, p1, 1) THEN [ st |-> "raise" ]
        ELSE IF hasUser /\ ~CanRead(d, p2, 4) THEN [ st |-> "raise" ]
        ELSE IF ~CanRead(d, p3, 4) THEN [ st |-> "raise" ]
        ELSE
        LET user == IF hasUser THEN U32At(d, p2) ELSE 0
            n == I32At(d, p3)
            hasUser2 == user = UserVer12 /\ ver = V20_2_0_7
        IN  IF n <= 0
              THEN [ st |-> "false", pos |-> p4, ver |-> ver, user |-> user, n |-> n ]
            ELSE IF hasUser2 /\ ~CanRead(d, p4, 4)
              THEN [ st |-> "raise" ]
            ELSE [ st |-> "ok", pos |-> IF hasUser2 THEN p4 + 4 ELSE p4,
                   ver |-> ver, user |-> user, n |-> n ]

ParseHeader ==
    /\ pc = "header"
    /\ LET header_end == Find(data, << 10 >>, 0, Len(data))
           header_line == Slice(data, 0, header_end)
       IN  IF header_end = -1
             THEN /\ Return(FALSE)
                  /\ UNCHANGED << pos, file_ver, user_ver, num_objects, errAt >>
           ELSE IF \E i \in 1..Len(header_line) : header_line[i] >= 128
             \* decode('ascii') raises UnicodeDecodeError
             THEN /\ Raise("parse_header")
                  /\ UNCHANGED << pos, file_ver, user_ver, num_objects, ret >>
           ELSE IF ~Contains(header_line, GamebryoFileFormat)
             THEN /\ Return(FALSE)
                  /\ UNCHANGED << pos, file_ver, user_ver, num_objects, errAt >>
           ELSE LET h == HeaderFields(data, header_end + 1)
                IN  CASE h.st = "raise" ->
                           /\ Raise("parse_header")
                           /\ UNCHANGED << pos, file_ver, user_ver, num_objects, ret >>
                      [] h.st = "false" ->
                           /\ Return(FALSE)
                           /\ pos' = h.pos
                           /\ file_ver' = h.ver
                           /\ user_ver' = h.user
                           /\ num_objects' = h.n
                           /\ UNCHANGED errAt
                      [] h.st = "ok" ->
                           /\ pc' = "metadata"
                           /\ pos' = h.pos
                           /\ file_ver' = h.ver
                           /\ user_ver' = h.user
                           /\ num_objects' = h.n
                           /\ UNCHANGED << ret, errAt >>
    /\ UNCHANGED << data, type_names, object_types, object_sizes, object_offsets,
                    string_table, modified, index_str_idx, processed_streams,
                    mesh_i, streams, dataIn, scan, located, patchLog, writeLog >>
    /\ UNCHANGED << passVars, mainVars >>

(***************************************************************************)
(* parse_metadata                                                          *)
(***************************************************************************)
ParseMetadata ==
    /\ pc = "metadata"
    /\ IF file_ver >= V20_9_0_1
         THEN IF ~CanRead(data, pos, 4)
                THEN Raise("parse_metadata") /\ UNCHANGED pos
                ELSE /\ pos' = pos + 4 + U32At(data, pos)
                     /\ pc' = "types"
                     /\ UNCHANGED errAt
         ELSE /\ pc' = "types"
              /\ UNCHANGED << pos, errAt >>
    /\ UNCHANGED << data, file_ver, user_ver, num_objects, type_names, object_types,
                    object_sizes, object_offsets, string_table, modified,
                    index_str_idx, processed_streams, mesh_i, streams, ret, dataIn,
                    scan, located, patchLog, writeLog >>
    /\ UNCHANGED << passVars, mainVars >>

(***************************************************************************)
(* parse_type_names_and_indices, parse_object_sizes, parse_string_table,   *)
(* parse_object_groups                                                     *)
(***************************************************************************)
\* read_string after a 32-bit length, k times from p
RECURSIVE ReadStrings(_, _, _, _)
ReadStrings(d, p, k, acc) ==
    IF k = 0 THEN [ ok |-> TRUE, pos |-> p, strs |-> acc ]
    ELSE IF ~CanRead(d, p, 4) THEN [ ok |-> FALSE, pos |-> p, strs |-> acc ]
    ELSE LET str_len == U32At(d, p)
             str == RStripZero(Slice(d, p + 4, p + 4 + str_len))
         IN  ReadStrings(d, p + 4 + str_len, k - 1, Append(acc, str))

\* type_idx &= ~32768
MaskTypeIdx(type_idx) ==
    IF file_ver >= V20_2_0_5 /\ type_idx >= 32768 THEN type_idx - 32768 ELSE type_idx

\* the loop over the objects' type indices; names is self.type_names
RECURSIVE ReadObjectTypes(_, _, _, _, _)
ReadObjectTypes(d, p, k, names, acc) ==
    IF k = 0 THEN [ ok |-> TRUE, pos |-> p, types |-> acc ]
    ELSE IF ~CanRead(d, p, 2) THEN [ ok |-> FALSE, pos |-> p, types |-> acc ]
    ELSE LET type_idx == MaskTypeIdx(U16At(d, p))
         IN  IF type_idx >= Len(names)
               THEN [ ok |-> FALSE, pos |-> p, types |-> acc ]
               ELSE ReadObjectTypes(d, p + 2, k - 1, names,
                                    Append(acc, names[type_idx + 1]))

\* read_uint, k times from p
RECURSIVE ReadUints(_, _, _, _)
ReadUints(d, p, k, acc) ==
    IF k = 0 THEN [ ok |-> TRUE, pos |-> p, vals |-> acc ]
    ELSE IF ~CanRead(d, p, 4) THEN [ ok |-> FALSE, pos |-> p, vals |-> acc ]
    ELSE ReadUints(d, p + 4, k - 1, Append(acc, U32At(d, p)))

ParseTypeNames ==
    /\ pc = "types"
    /\ IF file_ver >= V5_0_0_1
         THEN IF ~CanRead(data, pos, 2)
                THEN /\ Raise("parse_type_names_and_indices")
                     /\ UNCHANGED << pos, type_names, object_types >>
                ELSE LET names == ReadStrings(data, pos + 2, U16At(data, pos), << >>)
                         types == ReadObjectTypes(data, names.pos, num_objects,
                                                  names.strs, << >>)
                     IN  IF ~names.ok \/ ~types.ok
                           THEN /\ Raise("parse_type_names_and_indices")
                                /\ UNCHANGED << pos, type_names, object_types >>
                           ELSE /\ pc' = "sizes"
                                /\ pos' = types.pos
                                /\ type_names' = names.strs
                                /\ object_types' = types.types
                                /\ UNCHANGED errAt
         ELSE /\ pc' = "sizes"
              /\ UNCHANGED << pos, type_names, object_types, errAt >>
    /\ UNCHANGED << data, file_ver, user_ver, num_objects, object_sizes,
                    object_offsets, string_table, modified, index_str_idx,
                    processed_streams, mesh_i, streams, ret, dataIn, scan, located,
                    patchLog, writeLog >>
    /\ UNCHANGED << passVars, mainVars >>

ParseObjectSizes ==
    /\ pc = "sizes"
    /\ IF file_ver >= V20_2_0_5
         THEN LET r == ReadUints(data, pos, num_objects, << >>)
              IN  IF ~r.ok
                    THEN /\ Raise("parse_object_sizes")
                         /\ UNCHANGED << pos, object_sizes >>
                    ELSE /\ pc' = "strings"
                         /\ pos' = r.pos
                         /\ object_sizes' = r.vals
                         /\ UNCHANGED errAt
         ELSE /\ pc' = "strings"
              /\ UNCHANGED << pos, object_sizes, errAt >>
    /\ UNCHANGED << data, file_ver, user_ver, num_objects, type_names, object_types,
                    object_offsets, string_table, modified, index_str_idx,
                    processed_streams, mesh_i, streams, ret, dataIn, scan, located,
                    patchLog, writeLog >>
    /\ UNCHANGED << passVars, mainVars >>

ParseStringTable ==
    /\ pc = "strings"
    /\ IF file_ver >= V20_1_0_1
         THEN IF ~CanRead(data, pos, 8)
                THEN /\ Raise("parse_string_table")
                     /\ UNCHANGED << pos, string_table >>
                ELSE LET r == ReadStrings(data, pos + 8, U32At(data, pos), << >>)
                     IN  IF ~r.ok
                           THEN /\ Raise("parse_string_table")
                                /\ UNCHANGED << pos, string_table >>
                           ELSE /\ pc' = "groups"
                                /\ pos' = r.pos
                                /\ string_table' = r.strs
                                /\ UNCHANGED errAt
         ELSE /\ pc' = "groups"
              /\ UNCHANGED << pos, string_table, errAt >>
    /\ UNCHANGED << data, file_ver, user_ver, num_objects, type_names, object_types,
                    object_sizes, object_offsets, modified, index_str_idx,
                    processed_streams, mesh_i, streams, ret, dataIn, scan, located,
                    patchLog, writeLog >>
    /\ UNCHANGED << passVars, mainVars >>

ParseObjectGroups ==
    /\ pc = "groups"
    /\ IF file_ver >= V5_0_0_6
         THEN IF ~CanRead(data, pos, 4)
                THEN Raise("parse_object_groups") /\ UNCHANGED pos
                ELSE LET r == ReadUints(data, pos + 4, U32At(data, pos), << >>)
                     IN  IF ~r.ok
                           THEN Raise("parse_object_groups") /\ UNCHANGED pos
                           ELSE /\ pc' = "offsets"
                                /\ pos' = r.pos
                                /\ UNCHANGED errAt
         ELSE /\ pc' = "offsets"
              /\ UNCHANGED << pos, errAt >>
    /\ UNCHANGED << data, file_ver, user_ver, num_objects, type_names, object_types,
                    object_sizes, object_offsets, string_table, modified,
                    index_str_idx, processed_streams, mesh_i, streams, ret, dataIn,
                    scan, located, patchLog, writeLog >>
    /\ UNCHANGED << passVars, mainVars >>

(***************************************************************************)
(* parse_and_fix: the object offset table                                  *)
(***************************************************************************)
\* the accumulation loop: offsets collected so far, the running current_pos
RECURSIVE OffsetLoop(_, _, _, _)
OffsetLoop(i, n, current_pos, acc) ==
    IF i = n THEN [ ok |-> TRUE, offsets |-> acc ]
    \* object_sizes[i] raises IndexError past the end of the size list
    ELSE IF i >= Len(object_sizes) THEN [ ok |-> FALSE, offsets |-> Append(acc, current_pos) ]
    ELSE OffsetLoop(i + 1, n, current_pos + object_sizes[i + 1], Append(acc, current_pos))

\* offsets accumulated from the start of the file
FirstOffsetZero(cursor) == 0

\* objects_start = self.pos
FirstOffset(cursor) == cursor

BuildOffsets ==
    /\ pc = "offsets"
    /\ LET r == OffsetLoop(0, num_objects, FirstOffset(pos), << >>)
       IN  /\ object_offsets' = r.offsets
           /\ IF r.ok
                THEN pc' = "index" /\ UNCHANGED errAt
                ELSE Raise("parse_and_fix")
    /\ UNCHANGED << data, pos, file_ver, user_ver, num_objects, type_names,
                    object_types, object_sizes, string_table, modified,
                    index_str_idx, processed_streams, mesh_i, streams, ret, dataIn,
                    scan, located, patchLog, writeLog >>
    /\ UNCHANGED << passVars, mainVars >>

(***************************************************************************)
(* find_index_streams_in_mesh                                              *)
(***************************************************************************)
\* while search_pos < end_pos - 20
ScanMargin == 20
\* range(4, 100, 4)
BackStart == 4
BackStop == 100
BackStep == 4
\* range(7, 50)
LinkStart == 7
LinkStop == 50
\* elem_idx_val >= 10, e_idx >= 10, 1 <= num_elems <= 10
ElemIdxLimit == 10

\* the mesh-end test left out
DescAnywhere(e_pos, end_pos) == TRUE

\* if e_pos + 8 > end_pos: valid = False
DescInMesh(e_pos, end_pos) == e_pos + 8 <= end_pos

\* if e_str >= len(self.string_table) or e_idx >= 10: valid = False
DescValid(e_str, e_idx) == e_str < Len(string_table) /\ e_idx < ElemIdxLimit

\* the validation loop over the num_elems descriptors after the count field
RECURSIVE ValidateDescs(_, _, _, _)
ValidateDescs(elem_start, e, num_elems, end_pos) ==
    IF e = num_elems THEN "valid"
    ELSE LET e_pos == elem_start + e * 8
         IN  IF ~DescInMesh(e_pos, end_pos) THEN "invalid"
             ELSE IF ~CanRead(data, e_pos, 8) THEN "raise"
             ELSE IF ~DescValid(U32At(data, e_pos), U32At(data, e_pos + 4)) THEN "invalid"
             ELSE ValidateDescs(elem_start, e + 1, num_elems, end_pos)

\* if 0 <= link_id < self.num_objects: ... obj_type.startswith("NiDataStream")
LinkValid(link_id) ==
    /\ link_id < num_objects
    /\ StartsWith(object_types[link_id + 1], NiDataStream)

\* the loop over link_offset; the link id found, or -1
RECURSIVE LinkSearch(_, _, _)
LinkSearch(num_pos, link_offset, start_pos) ==
    IF link_offset >= LinkStop THEN -1
    ELSE LET link_pos == num_pos - link_offset
         IN  IF link_pos < start_pos THEN -1
             ELSE IF LinkValid(U32At(data, link_pos)) THEN U32At(data, link_pos)
             ELSE LinkSearch(num_pos, link_offset + 1, start_pos)

\* the loop over back for the hit at idx
RECURSIVE BackSearch(_, _, _, _)
BackSearch(idx, back, start_pos, end_pos) ==
    IF back >= BackStop THEN [ st |-> "none", link |-> -1 ]
    ELSE LET num_pos == idx - back
         IN  IF num_pos < start_pos THEN [ st |-> "none", link |-> -1 ]
             ELSE LET num_elems == U32At(data, num_pos)
                  IN  IF ~(1 <= num_elems /\ num_elems <= ElemIdxLimit)
                        THEN BackSearch(idx, back + BackStep, start_pos, end_pos)
                      ELSE LET v == ValidateDescs(num_pos + 4, 0, num_elems, end_pos)
                           IN  IF v = "raise" THEN [ st |-> "raise", link |-> -1 ]
                               ELSE IF v = "invalid"
                                 THEN BackSearch(idx, back + BackStep, start_pos, end_pos)
                               ELSE LET l == LinkSearch(num_pos, LinkStart, start_pos)
                                    IN  IF l # -1 THEN [ st |-> "found", link |-> l ]
                                        ELSE BackSearch(idx, back + BackStep,
                                                        start_pos, end_pos)

\* the while loop; acc holds one record per hit whose element index is < 10
RECURSIVE ScanFrom(_, _, _, _, _)
ScanFrom(search_pos, start_pos, end_pos, index_pattern, acc) ==
    IF ~(search_pos < end_pos - ScanMargin) THEN [ ok |-> TRUE, hits |-> acc ]
    ELSE LET idx == Find(data, index_pattern, search_pos, end_pos)
         IN  IF idx = -1 THEN [ ok |-> TRUE, hits |-> acc ]
             ELSE IF ~CanRead(data, idx + 4, 4) THEN [ ok |-> FALSE, hits |-> acc ]
             ELSE LET elem_idx_val == U32At(data, idx + 4)
                  IN  IF elem_idx_val >= ElemIdxLimit
                        THEN ScanFrom(idx + 1, start_pos, end_pos, index_pattern, acc)
                      ELSE LET r == BackSearch(idx, BackStart, start_pos, end_pos)
                           IN  IF r.st = "raise" THEN [ ok |-> FALSE, hits |-> acc ]
                               ELSE ScanFrom(idx + 1, start_pos, end_pos, index_pattern,
                                        Append(acc, [ idx |-> idx, e |-> elem_idx_val,
                                                      found |-> r.st = "found",
                                                      link |-> r.link ]))

find_index_streams_in_mesh(mesh_idx, index_str) ==
    LET start_pos == object_offsets[mesh_idx + 1]
        end_pos == start_pos + object_sizes[mesh_idx + 1]
        r == ScanFrom(start_pos, start_pos, end_pos, LE32(index_str), << >>)
    IN  [ ok |-> r.ok, start |-> start_pos, end |-> end_pos, hits |-> r.hits ]

\* streams.append((link_id, elem_idx_val)) for the hits that found a link
RECURSIVE StreamsOf(_)
StreamsOf(hits) ==
    IF hits = << >> THEN << >>
    ELSE (IF Head(hits).found THEN << << Head(hits).link, Head(hits).e >> >> ELSE << >>)
           \o StreamsOf(Tail(hits))

(***************************************************************************)
(* fix_datastream_winding                                                  *)
(***************************************************************************)
\* (base_idx, count) pairs, k of them from p
RECURSIVE ReadRegions(_, _, _, _)
ReadRegions(d, p, k, acc) ==
    IF k = 0 THEN [ ok |-> TRUE, pos |-> p, regions |-> acc ]
    ELSE IF ~CanRead(d, p, 8) THEN [ ok |-> FALSE, pos |-> p, regions |-> acc ]
    ELSE ReadRegions(d, p + 8, k - 1, Append(acc, << U32At(d, p), U32At(d, p + 4) >>))

elem_count(elem_data) == (elem_data \div 65536) % 256
elem_size(elem_data) == (elem_data \div 256) % 256
elem_type(elem_data) == elem_data % 256

\* elem_stride += elem_count * elem_size, over all elements
RECURSIVE ElemStride(_)
ElemStride(elems) ==
    IF elems = << >> THEN 0
    ELSE elem_count(Head(elems)) * elem_size(Head(elems)) + ElemStride(Tail(elems))

\* the width taken from the data type alone
IndexSizeByType(elems) ==
    IF elems = << >> THEN 2
    ELSE IF elem_type(elems[1]) \in { 10, 11 } THEN 4
    ELSE 2

\* index_size: 2 by default, the first element's size, 4 for data types 10 and 11
IndexSize(elems) ==
    IF elems = << >> THEN 2
    ELSE IF elem_type(elems[1]) \in { 10, 11 } THEN 4
    ELSE elem_size(elems[1])

\* the stream's layout as read from self.object_offsets[stream_idx]
StreamLayout(d, stream_idx) ==
    LET p0 == object_offsets[stream_idx + 1]
    IN  IF ~CanRead(d, p0, 12) THEN [ ok |-> FALSE ]
        ELSE LET regs == ReadRegions(d, p0 + 12, U32At(d, p0 + 8), << >>)
             IN  IF ~regs.ok \/ ~CanRead(d, regs.pos, 4) THEN [ ok |-> FALSE ]
                 ELSE LET els == ReadUints(d, regs.pos + 4, U32At(d, regs.pos), << >>)
                      IN  IF ~els.ok THEN [ ok |-> FALSE ]
                          ELSE [ ok |-> TRUE,
                                 stream_size |-> U32At(d, p0),
                                 regions |-> regs.regions,
                                 elems |-> els.vals,
                                 elem_stride |-> ElemStride(els.vals),
                                 index_size |-> IndexSize(els.vals),
                                 data_start |-> els.pos ]

\* struct.unpack_from('<HHH' / '<III', self.data, offset)
Unpack3(d, offset, w) ==
    IF w = 2
      THEN << U16At(d, offset), U16At(d, offset + 2), U16At(d, offset + 4) >>
      ELSE << U32At(d, offset), U32At(d, offset + 4), U32At(d, offset + 8) >>

\* the bytes struct.pack_into('<HHH' / '<III', ...) writes for three values
Pack3(v, w) ==
    IF w = 2 THEN LE16(v[1]) \o LE16(v[2]) \o LE16(v[3])
             ELSE LE32(v[1]) \o LE32(v[2]) \o LE32(v[3])

\* a, b, c written back as b, c, a
RotateTriple(v) == << v[2], v[3], v[1] >>

\* a, b, c are written back as a, c, b
SwapTriple(v) == << v[1], v[3], v[2] >>

\* the multiple-of-3 test left out
EligibleAlways(count) == TRUE

\* if num_indices % 3 != 0: continue
Eligible(count) == count % 3 = 0

\* region_offset = data_start + base_idx * elem_stride
RegionOffset(data_start, base_idx, elem_stride) == data_start + base_idx * elem_stride

\* the loop over t of one region; s carries the buffer and the write log
RECURSIVE PatchTriangles(_, _, _, _, _, _, _)
PatchTriangles(s, stream_idx, region_idx, region_offset, w, t, num_triangles) ==
    IF t = num_triangles THEN s
    ELSE LET offset == region_offset + t * 3 * w
         IN  IF offset + 3 * w > Len(s.data) THEN s
             ELSE LET new == Pack3(SwapTriple(Unpack3(s.data, offset, w)), w)
                      wr == [ stream |-> stream_idx, region |-> region_idx,
                              off |-> offset, width |-> w,
                              before |-> SubSeq(s.data, offset + 1, offset + 3 * w),
                              after |-> new ]
                  IN  PatchTriangles([ s EXCEPT !.data = ReplaceAt(s.data, offset, new),
                                                !.writes = Append(s.writes, wr) ],
                                     stream_idx, region_idx, region_offset, w,
                                     t + 1, num_triangles)

\* the loop over the regions; s also carries total_triangles
RECURSIVE PatchRegions(_, _, _, _)
PatchRegions(s, stream_idx, lay, region_idx) ==
    IF region_idx = Len(lay.regions) THEN s
    ELSE LET base_idx == lay.regions[region_idx + 1][1]
             count == lay.regions[region_idx + 1][2]
             num_triangles == count \div 3
         IN  IF lay.index_size \in { 2, 4 } /\ Eligible(count)
               THEN LET s2 == PatchTriangles(s, stream_idx, region_idx,
                                  RegionOffset(lay.data_start, base_idx, lay.elem_stride),
                                  lay.index_size, 0, num_triangles)
                    IN  PatchRegions([ s2 EXCEPT !.total = s.total + num_triangles ],
                                     stream_idx, lay, region_idx + 1)
               ELSE PatchRegions(s, stream_idx, lay, region_idx + 1)

fix_datastream_winding(d, stream_idx) ==
    LET lay == StreamLayout(d, stream_idx)
    IN  IF ~lay.ok THEN [ ok |-> FALSE, data |-> d, writes |-> << >>, total |-> 0,
                          lay |-> lay ]
        ELSE LET s == PatchRegions([ data |-> d, writes |-> << >>, total |-> 0 ],
                                   stream_idx, lay, 0)
             IN  [ ok |-> TRUE, data |-> s.data, writes |-> s.writes,
                   total |-> s.total, lay |-> lay ]

(***************************************************************************)
(* process_all_meshes                                                      *)
(***************************************************************************)
\* self.string_table.index("INDEX"), or -1 for ValueError
IndexOfINDEX ==
    LET S == { i \in 1..Len(string_table) : string_table[i] = INDEX }
    IN  IF S = {} THEN -1 ELSE SetMin(S) - 1

FindIndex ==
    /\ pc = "index"
    /\ IF IndexOfINDEX = -1
         THEN /\ Return(modified)
              /\ UNCHANGED << index_str_idx, processed_streams, mesh_i >>
         ELSE /\ index_str_idx' = IndexOfINDEX
              /\ processed_streams' = {}
              /\ mesh_i' = 0
              /\ pc' = "meshes"
              /\ UNCHANGED ret
    /\ UNCHANGED << data, pos, file_ver, user_ver, num_objects, type_names,
                    object_types, object_sizes, object_offsets, string_table,
                    modified, streams, errAt, dataIn, scan, located, patchLog,
                    writeLog >>
    /\ UNCHANGED << passVars, mainVars >>

\* if self.object_types[i] != "NiMesh": continue
SkipObject ==
    /\ pc = "meshes"
    /\ mesh_i < num_objects
    /\ object_types[mesh_i + 1] # NiMesh
    /\ mesh_i' = mesh_i + 1
    /\ UNCHANGED << data, pos, file_ver, user_ver, num_objects, type_names,
                    object_types, object_sizes, object_offsets, string_table,
                    modified, index_str_idx, processed_streams, streams, pc, ret,
                    errAt, dataIn, scan, located, patchLog, writeLog >>
    /\ UNCHANGED << passVars, mainVars >>

\* streams = self.find_index_streams_in_mesh(i, index_str_idx)
ScanMesh ==
    /\ pc = "meshes"
    /\ mesh_i < num_objects
    /\ object_types[mesh_i + 1] = NiMesh
    /\ LET r == find_index_streams_in_mesh(mesh_i, index_str_idx)
       IN  IF r.ok
             THEN /\ streams' = StreamsOf(r.hits)
                  /\ scan' = [ start |-> r.start, end |-> r.end, hits |-> r.hits ]
                  /\ pc' = "streams"
                  /\ UNCHANGED errAt
             ELSE /\ Raise("find_index_streams_in_mesh")
                  /\ UNCHANGED << streams, scan >>
    /\ UNCHANGED << data, pos, file_ver, user_ver, num_objects, type_names,
                    object_types, object_sizes, object_offsets, string_table,
                    modified, index_str_idx, processed_streams, mesh_i, ret, dataIn,
                    located, patchLog, writeLog >>
    /\ UNCHANGED << passVars, mainVars >>

\* the processed-set test left out
NeverProcessed(stream_id) == FALSE

\* if stream_id in processed_streams
AlreadyProcessed(stream_id) == stream_id \in processed_streams

\* if stream_id in processed_streams: continue
SkipProcessed ==
    /\ pc = "streams"
    /\ streams # << >>
    /\ AlreadyProcessed(Head(streams)[1])
    /\ streams' = Tail(streams)
    /\ located' = Append(located, Head(streams)[1])
    /\ UNCHANGED << data, pos, file_ver, user_ver, num_objects, type_names,
                    object_types, object_sizes, object_offsets, string_table,
                    modified, index_str_idx, processed_streams, mesh_i, pc, ret,
                    errAt, dataIn, scan, patchLog, writeLog >>
    /\ UNCHANGED << passVars, mainVars >>

\* processed_streams.add(stream_id); self.fix_datastream_winding(stream_id)
FixStream ==
    /\ pc = "streams"
    /\ streams # << >>
    /\ ~AlreadyProcessed(Head(streams)[1])
    /\ LET stream_id == Head(streams)[1]
           r == fix_datastream_winding(data, stream_id)
       IN  /\ processed_streams' = processed_streams \cup { stream_id }
           /\ located' = Append(located, stream_id)
           /\ streams' = Tail(streams)
           /\ patchLog' = Append(patchLog, [ stream |-> stream_id, ok |-> r.ok,
                                             lay |-> r.lay, total |-> r.total ])
           /\ IF r.ok
                THEN /\ data' = r.data
                     /\ writeLog' = writeLog \o r.writes
                     /\ pos' = r.lay.data_start
                     /\ modified' = (modified \/ r.total > 0)
                     /\ UNCHANGED << pc, errAt >>
                ELSE /\ Raise("fix_datastream_winding")
                     /\ UNCHANGED << data, writeLog, pos, modified >>
    /\ UNCHANGED << file_ver, user_ver, num_objects, type_names, object_types,
                    object_sizes, object_offsets, string_table, index_str_idx,
                    mesh_i, ret, dataIn, scan >>
    /\ UNCHANGED << passVars, mainVars >>

\* the inner loop over streams is exhausted: next i
MeshDone ==
    /\ pc = "streams"
    /\ streams = << >>
    /\ mesh_i' = mesh_i + 1
    /\ pc' = "meshes"
    /\ UNCHANGED << data, pos, file_ver, user_ver, num_objects, type_names,
                    object_types, object_sizes, object_offsets, string_table,
                    modified, index_str_idx, processed_streams, streams, ret, errAt,
                    dataIn, scan, located, patchLog, writeLog >>
    /\ UNCHANGED << passVars, mainVars >>

\* the loop over the objects is exhausted: return self.modified
MeshesDone ==
    /\ pc = "meshes"
    /\ mesh_i = num_objects
    /\ Return(modified)
    /\ UNCHANGED << data, pos, file_ver, user_ver, num_objects, type_names,
                    object_types, object_sizes, object_offsets, string_table,
                    modified, index_str_idx, processed_streams, mesh_i, streams,
                    errAt, dataIn, scan, located, patchLog, writeLog >>
    /\ UNCHANGED << passVars, mainVars >>

ParserStep ==
    \/ ParseHeader
    \/ ParseMetadata
    \/ ParseTypeNames
    \/ ParseObjectSizes
    \/ ParseStringTable
    \/ ParseObjectGroups
    \/ BuildOffsets
    \/ FindIndex
    \/ SkipObject
    \/ ScanMesh
    \/ SkipProcessed
    \/ FixStream
    \/ MeshDone
    \/ MeshesDone

(***************************************************************************)
(* The fixer applied to its own output: parse_and_fix on a new NifParser   *)
(* over the buffer the first run left.                                     *)
(***************************************************************************)
\* NifParser(d) for the next run: __init__, as an action
LoadParser(d) ==
    /\ data' = d
    /\ dataIn' = d
    /\ pos' = 0
    /\ file_ver' = 0
    /\ user_ver' = 0
    /\ num_objects' = 0
    /\ type_names' = << >>
    /\ object_types' = << >>
    /\ object_sizes' = << >>
    /\ object_offsets' = << >>
    /\ string_table' = << >>
    /\ modified' = FALSE
    /\ index_str_idx' = -1
    /\ processed_streams' = {}
    /\ mesh_i' = 0
    /\ streams' = << >>
    /\ pc' = "header"
    /\ ret' = FALSE
    /\ errAt' = "none"
    /\ scan' = NoScan
    /\ located' = << >>
    /\ patchLog' = << >>
    /\ writeLog' = << >>

Rerun ==
    /\ pc = "returned"
    /\ pass = 1
    /\ mpc = "none"
    /\ pass' = 2
    /\ writes1' = writeLog
    /\ LoadParser(data)
    /\ UNCHANGED << data0, mainVars >>

Next == ParserStep \/ Rerun

Spec == Init /\ [][Next]_vars

(***************************************************************************)
(* main on a directory: fix_nif_file for each file in sorted order.  An    *)
(* exception raised inside parse_and_fix is caught nowhere: it leaves      *)
(* fix_nif_file and main, and the process ends with a traceback.           *)
(***************************************************************************)
FileSamples ==
    { StdFile,
      EncFile(File(V20_6, << StdMesh(2), StdMesh(2), StdStream >>, << INDEX >>)),
      SubSeq(StdFile, 1, 40),
      BadHeaderFile,
      ZeroObjectsFile,
      OldVersionFile }

Directories == UNION { [ 1..n -> FileSamples ] : n \in 1..MaxFiles }

InitDir ==
    /\ disk \in Directories
    /\ disk0 = disk
    /\ fi = 0
    /\ outcomes = << >>
    /\ mpc = "loop"
    /\ NewParser(<< >>)
    /\ pc = "idle"
    /\ data0 = << >>
    /\ pass = 1
    /\ writes1 = << >>

\* fix_nif_file: data = f.read(); parser = NifParser(data)
OpenFile ==
    /\ mpc = "loop"
    /\ fi < Len(disk)
    /\ mpc' = "file"
    /\ LoadParser(disk[fi + 1])
    /\ UNCHANGED << disk, disk0, fi, outcomes, passVars >>

\* fix_nif_file after parse_and_fix returned: write the buffer back if modified
FileReturned ==
    /\ mpc = "file"
    /\ pc = "returned"
    /\ disk' = IF ret THEN [ disk EXCEPT ![fi + 1] = data ] ELSE disk
    /\ outcomes' = Append(outcomes, ret)
    /\ fi' = fi + 1
    /\ mpc' = "loop"
    /\ UNCHANGED << disk0, parserVars, passVars >>

\* parse_and_fix raised: nothing is written, the exception ends main
FileRaised ==
    /\ mpc = "file"
    /\ pc = "raised"
    /\ mpc' = "crashed"
    /\ UNCHANGED << disk, disk0, fi, outcomes, parserVars, passVars >>

\* the loop over nif_files is exhausted: "Done: ..."
MainDone ==
    /\ mpc = "loop"
    /\ fi = Len(disk)
    /\ mpc' = "exited"
    /\ UNCHANGED << disk, disk0, fi, outcomes, parserVars, passVars >>

NextDir == ParserStep \/ OpenFile \/ FileReturned \/ FileRaised \/ MainDone

SpecDir == InitDir /\ [][NextDir]_vars

(***************************************************************************)
(* Properties.                                                             *)
(***************************************************************************)
Terminal == pc \in { "returned", "raised" }

\* the 0-based byte positions a logged write covers
WriteRange(w) == w.off .. (w.off + 3 * w.width - 1)

Ranges(log) == [ i \in 1..Len(log) |-> << log[i].off, log[i].width >> ]

PairwiseDisjoint(log) ==
    \A i, j \in 1..Len(log) : i # j => WriteRange(log[i]) \cap WriteRange(log[j]) = {}

\* C1 (as claimed): whenever both runs complete, the second run's result is
\* the first run's input, byte for byte: fix(fix(x)) = x.
C1_Involution ==
    (pass = 2 /\ pc = "returned") => data = data0

\* C1 (amended): fix(fix(x)) = x whenever both runs complete, the triples the
\* first run wrote occupy pairwise disjoint byte ranges, and the second run
\* writes the same ranges in the same order.
C1_InvolutionOnDisjointTriples ==
    (pass = 2 /\ pc = "returned" /\ PairwiseDisjoint(writes1)
       /\ Ranges(writeLog) = Ranges(writes1))
      => data = data0

\* a second run that undid a first run which changed bytes in two regions
C1_Witness ==
    /\ pass = 2
    /\ pc = "returned"
    /\ PairwiseDisjoint(writes1)
    /\ Ranges(writeLog) = Ranges(writes1)
    /\ Len(writes1) >= 2
    /\ dataIn # data0
    /\ data = data0

\* the end of a patched stream's payload, read generously: the later of
\* data_start + streamSize and the end of the object
PayloadEnd(k) ==
    LET a == k.lay.data_start + k.lay.stream_size
        b == object_offsets[k.stream + 1] + object_sizes[k.stream + 1]
    IN  IF a >= b THEN a ELSE b

InPayload(q, k) == k.ok /\ q >= k.lay.data_start /\ q < PayloadEnd(k)

\* C2 (as claimed): every byte that differs from the run's input lies inside
\* the payload of a data-stream object the Patcher was invoked on.
C2_WritesStayInPayload ==
    \A q \in 0..(Len(data) - 1) :
        data[q + 1] # dataIn[q + 1]
          => \E i \in 1..Len(patchLog) : InPayload(q, patchLog[i])

\* the bytes [lo, hi) of the first value of a triple of width w, then the
\* third, then the second
Exchanged(bytes, w) ==
    SubSeq(bytes, 1, w) \o SubSeq(bytes, 2 * w + 1, 3 * w) \o SubSeq(bytes, w + 1, 2 * w)

WritesOf(k) == { i \in 1..Len(writeLog) : writeLog[i].stream = k.stream }

RegionBytes(k, r) ==
    LET first == k.lay.data_start + k.lay.regions[r][1] * k.lay.elem_stride
        last == first + k.lay.regions[r][2] * k.lay.index_size - 1
    IN  { q \in first..last : q < Len(data) }

Ineligible(k, r) == k.lay.regions[r][2] % 3 # 0

\* C4 (as claimed): no byte of a region whose elementCount is not a multiple
\* of 3 differs from the run's input, other patched regions notwithstanding.
C4_IneligibleRegionUntouched ==
    \A i \in 1..Len(patchLog) :
        LET k == patchLog[i]
        IN  k.ok => \A r \in 1..Len(k.lay.regions) :
                      Ineligible(k, r)
                        => \A q \in RegionBytes(k, r) : data[q + 1] = dataIn[q + 1]

\* C4 (amended): no triple is written for a region whose elementCount is not
\* a multiple of 3, and a byte of such a region differs from the run's input
\* only where a triple written for another region or stream covers it.
C4_NothingWrittenForIneligible ==
    \A i \in 1..Len(patchLog) :
        LET k == patchLog[i]
        IN  k.ok => \A r \in 1..Len(k.lay.regions) :
                      Ineligible(k, r) =>
                        /\ \A j \in WritesOf(k) : writeLog[j].region # r - 1
                        /\ \A q \in RegionBytes(k, r) :
                              data[q + 1] # dataIn[q + 1]
                                => \E j \in 1..Len(writeLog) :
                                      /\ q \in WriteRange(writeLog[j])
                                      /\ ~(writeLog[j].stream = k.stream
                                             /\ writeLog[j].region = r - 1)

\* a stream with a region of 4 elements beside a region that was patched and
\* changed some of the 4-element region's bytes
C4_Witness ==
    \E i \in 1..Len(patchLog) :
        LET k == patchLog[i]
        IN  /\ k.ok
            /\ WritesOf(k) # {}
            /\ \E r \in 1..Len(k.lay.regions) :
                  /\ Ineligible(k, r)
                  /\ \E q \in RegionBytes(k, r) : data[q + 1] # dataIn[q + 1]

(***************************************************************************)
(* Properties of main (SpecDir).                                           *)
(***************************************************************************)
\* C5 (as claimed): when main has stopped, every file of the directory was
\* processed, and every file fix_nif_file did not report as fixed is on disk
\* as it was: no parse failure ends the run or touches the file.
C5_ParseFailureIsPerFile ==
    mpc \in { "exited", "crashed" }
      => /\ Len(outcomes) = Len(disk)
         /\ \A i \in 1..Len(disk) : ~outcomes[i] => disk[i] = disk0[i]

(***************************************************************************)
(* Properties of parse_and_fix, continued (Spec).                          *)
(***************************************************************************)
TableReaders ==
    { "parse_header", "parse_metadata", "parse_type_names_and_indices",
      "parse_object_sizes", "parse_string_table", "parse_object_groups" }

\* C6 (as claimed): a file below 20.2.0.5 whose header and tables were read
\* without error ends with parse_and_fix returning False and the buffer as
\* it was given.
C6_OldVersionIsNoOp ==
    (Terminal /\ num_objects > 0 /\ file_ver < V20_2_0_5 /\ errAt \notin TableReaders)
      => (pc = "returned" /\ ~ret /\ data = dataIn)

\* s with every element that occurred earlier removed
RECURSIVE FirstOccurrences(_, _)
FirstOccurrences(s, seen) ==
    IF s = << >> THEN << >>
    ELSE IF Head(s) \in seen THEN FirstOccurrences(Tail(s), seen)
    ELSE << Head(s) >> \o FirstOccurrences(Tail(s), seen \cup { Head(s) })

PatchedIds == [ i \in 1..Len(patchLog) |-> patchLog[i].stream ]

\* C7: the Patcher's invocations of a run are the stream ids the Locator
\* returned, each once, in the order of their first occurrence.
C7_PatchedOncePerStream ==
    /\ \A i, j \in 1..Len(patchLog) : i # j => patchLog[i].stream # patchLog[j].stream
    /\ PatchedIds = FirstOccurrences(located, {})

\* a completed run in which the Locator returned one stream id twice
C7_Witness ==
    /\ pc = "returned"
    /\ \E i, j \in 1..Len(located) : i < j /\ located[i] = located[j]
    /\ Len(patchLog) = 1
    /\ writeLog # << >>

\* the offset table is complete
OffsetsBuilt ==
    /\ pc \in { "index", "meshes", "streams", "returned" }
    /\ num_objects > 0
    /\ Len(object_offsets) = num_objects

\* C8 (as claimed): offset[0] is the cursor after the tables, each further
\* offset adds the declared size, and the offsets strictly increase.
C8_OffsetsStrictlyIncrease ==
    OffsetsBuilt =>
      /\ patchLog = << >> => object_offsets[1] = pos
      /\ \A i \in 1..(num_objects - 1) :
            /\ object_offsets[i + 1] = object_offsets[i] + object_sizes[i]
            /\ object_offsets[i + 1] > object_offsets[i]

\* C8 (amended): offset[0] is the cursor after the tables and each further
\* offset adds the declared size; the offsets never decrease, and offset[i+1]
\* exceeds offset[i] exactly when size[i] is positive.
C8_OffsetsAccumulateSizes ==
    OffsetsBuilt =>
      /\ patchLog = << >> => object_offsets[1] = pos
      /\ \A i \in 1..(num_objects - 1) :
            /\ object_offsets[i + 1] = object_offsets[i] + object_sizes[i]
            /\ object_offsets[i + 1] >= object_offsets[i]
            /\ (object_offsets[i + 1] > object_offsets[i]) <=> (object_sizes[i] > 0)

\* an offset table of three objects, the first declared with size 0
C8_Witness ==
    /\ pc = "index"
    /\ num_objects = 3
    /\ Len(object_offsets) = 3
    /\ object_sizes[1] = 0
    /\ object_offsets[2] = object_offsets[1]
    /\ object_offsets[3] > object_offsets[2]

\* C9 (as claimed): parse_and_fix returns True exactly when some triple was
\* written during the run.
C9_ModifiedIffTripleWritten ==
    pc = "returned" => (ret <=> writeLog # << >>)

\* the scan is the last thing that happened: the buffer is as the Locator read it
FreshScan == pc = "streams" /\ streams = StreamsOf(scan.hits)

\* a count field `back' bytes before the hit validates within the mesh
CountValidates(h, back, inMesh) ==
    LET num_pos == h.idx - back
        n == U32At(data, num_pos)
    IN  /\ num_pos >= scan.start
        /\ n >= 1
        /\ n <= 10
        /\ \A e \in 0..(n - 1) :
              LET e_pos == num_pos + 4 + 8 * e
              IN  /\ inMesh => e_pos + 8 <= scan.end
                  /\ CanRead(data, e_pos, 8)
                  /\ U32At(data, e_pos) < Len(string_table)
                  /\ U32At(data, e_pos + 4) < 10

\* a 32-bit value `off' bytes before that count field names a NiDataStream* object
LinkValidates(h, back, off, link) ==
    LET link_pos == h.idx - back - off
    IN  /\ link_pos >= scan.start
        /\ U32At(data, link_pos) = link
        /\ link < num_objects
        /\ StartsWith(object_types[link + 1], NiDataStream)

\* C10 (as claimed): a hit is recorded iff a count field 4 to 100 bytes before
\* it (in 4-byte steps) validates and a link id 7 to 50 bytes before that
\* count field validates.
C10_RecordedIffWindows100And50 ==
    FreshScan =>
      \A i \in 1..Len(scan.hits) :
          LET h == scan.hits[i]
          IN  h.found <=>
                \E b \in 1..25 : \E off \in 7..50 : \E link \in 0..(num_objects - 1) :
                    CountValidates(h, 4 * b, FALSE) /\ LinkValidates(h, 4 * b, off, link)

\* C10 (amended): a hit is recorded iff a count field 4 to 96 bytes before it
\* (in 4-byte steps) validates with all its records ending inside the mesh
\* range, and a link id 7 to 49 bytes before that count field validates; the
\* recorded link id is such a value.
C10_RecordedIffWindows96And49 ==
    FreshScan =>
      \A i \in 1..Len(scan.hits) :
          LET h == scan.hits[i]
          IN  /\ h.e < 10
              /\ h.found <=>
                   \E b \in 1..24 : \E off \in 7..49 : \E link \in 0..(num_objects - 1) :
                       CountValidates(h, 4 * b, TRUE) /\ LinkValidates(h, 4 * b, off, link)
              /\ h.found =>
                   \E b \in 1..24 : \E off \in 7..49 :
                       CountValidates(h, 4 * b, TRUE) /\ LinkValidates(h, 4 * b, off, h.link)

\* a scan with a recorded hit and a discarded one
C10_Witness ==
    /\ FreshScan
    /\ \E i, j \in 1..Len(scan.hits) : scan.hits[i].found /\ ~scan.hits[j].found

====
